---- MODULE Spec2Model ----
(***************************************************************************)
(* Model of the workspace manager's enterprise operations                  *)
(* (components/ws-manager/pkg/manager/manager_ee.go): TakeSnapshot,        *)
(* GetVolumeSnapshot, ControlAdmission, SetTimeout and BackupWorkspace,    *)
(* running as concurrent requests against the cluster object store, the    *)
(* node daemon and the externally driven workspace lifecycle; and of the   *)
(* status watchers of the client (GitpodPublicApiManager.watchWorkspace).  *)
(*                                                                         *)
(* Strings that the code formats, lower-cases or parses are sequences of   *)
(* one-character strings, so that the conversions are computed.            *)
(***************************************************************************)
EXTENDS Integers, Sequences, FiniteSets, TLC

VARIABLES pods, snapshots, now, calls, budget, watchers, seq

vars == <<pods, snapshots, now, calls, budget, watchers, seq>>

(***************************************************************************)
(* Bounds of the model.                                                    *)
(***************************************************************************)
\* number of requests the callers issue in one behaviour
MaxCalls == 3
\* largest value the wall clock reaches
MaxClock == 1
\* number of status events the server pushes to the watchers
MaxEvents == 2

(***************************************************************************)
(* Strings.                                                                *)
(***************************************************************************)
UpperChars == <<"A","B","C","D","E","F","G","H","I","J","K","L","M",
                "N","O","P","Q","R","S","T","U","V","W","X","Y","Z">>
LowerChars == <<"a","b","c","d","e","f","g","h","i","j","k","l","m",
                "n","o","p","q","r","s","t","u","v","w","x","y","z">>
DigitChars == <<"0","1","2","3","4","5","6","7","8","9">>

IsDigit(c) == \E i \in 1..10 : DigitChars[i] = c

\* unicode.ToLower on one character
ToLowerChar(c) ==
    IF \E i \in 1..26 : UpperChars[i] = c
    THEN LowerChars[CHOOSE i \in 1..26 : UpperChars[i] = c]
    ELSE c

\* strings.ToLower
ToLower(s) == [i \in 1..Len(s) |-> ToLowerChar(s[i])]

RECURSIVE FormatInt(_)
\* the %d verb of fmt.Sprintf, for n >= 0
FormatInt(n) ==
    IF n < 10 THEN <<DigitChars[n + 1]>>
    ELSE FormatInt(n \div 10) \o <<DigitChars[(n % 10) + 1]>>

\* time.ParseDuration unit names
DurationUnits == { <<"n","s">>, <<"u","s">>, <<"m","s">>, <<"s">>, <<"m">>, <<"h">> }

\* the longest prefix of s made of digits
RECURSIVE LeadingDigits(_)
LeadingDigits(s) ==
    IF s # <<>> /\ IsDigit(Head(s)) THEN 1 + LeadingDigits(Tail(s)) ELSE 0

\* the longest prefix of s that holds neither a digit nor a "."
RECURSIVE LeadingUnit(_)
LeadingUnit(s) ==
    IF s # <<>> /\ ~IsDigit(Head(s)) /\ Head(s) # "."
    THEN 1 + LeadingUnit(Tail(s)) ELSE 0

Drop(s, n) == SubSeq(s, n + 1, Len(s))

\* the ([0-9]*(\.[0-9]*)?[a-z]+)+ loop of time.ParseDuration: TRUE when s is
\* a sequence of one or more number-unit groups
RECURSIVE DurationGroups(_)
DurationGroups(s) ==
    LET pre   == LeadingDigits(s)
        s1    == Drop(s, pre)
        dot   == s1 # <<>> /\ Head(s1) = "."
        s2    == IF dot THEN Tail(s1) ELSE s1
        post  == IF dot THEN LeadingDigits(s2) ELSE 0
        s3    == Drop(s2, post)
        u     == LeadingUnit(s3)
        rest  == Drop(s3, u)
    IN  /\ pre + post > 0
        /\ u > 0
        /\ SubSeq(s3, 1, u) \in DurationUnits
        /\ (rest = <<>> \/ DurationGroups(rest))

\* time.ParseDuration(s) returns a nil error
ParseDurationOK(s) ==
    LET unsigned == IF s # <<>> /\ Head(s) \in {"-", "+"} THEN Tail(s) ELSE s
    IN  \/ unsigned = <<"0">>
        \/ (unsigned # <<>> /\ DurationGroups(unsigned))

(***************************************************************************)
(* Requests and their inputs.                                              *)
(***************************************************************************)
Procs == {"c1", "c2"}

WorkspaceIDs == { <<"w","1">>, <<"w","2">> }

\* the workspace the cluster may hold a pod for; the other ID is unknown to it
BackedWorkspaceID == <<"w","1">>

\* api.AdmissionLevel values a request can carry; 2 names no level
RequestLevels == {0, 1, 2}

\* req.Duration values: "1h", "90m", "1h30" (no unit on the last number),
\* "not-a-duration"
RequestDurations ==
    { <<"1","h">>, <<"9","0","m">>, <<"1","h","3","0">>,
      <<"n","o","t","-","a","-","d","u","r","a","t","i","o","n">> }

Phases == {"CREATING", "RUNNING", "STOPPING", "STOPPED"}

\* the lifecycle the orchestration layer drives
NextPhase(phase) ==
    CASE phase = "CREATING" -> "RUNNING"
      [] phase = "RUNNING"  -> "STOPPING"
      [] phase = "STOPPING" -> "STOPPED"
      [] OTHER              -> "STOPPED"

\* api.AdmissionLevel_name
AdmissionLevel_name == (0 :> <<"O","w","n","e","r">>) @@
                       (1 :> <<"E","v","e","r","y","o","n","e">>)

WorkspaceAdmissionAnnotation == "gitpod/admission"
customTimeoutAnnotation == "gitpod/customTimeout"
ownerTokenAnnotation == "gitpod/ownerToken"
pvcWorkspaceFeatureLabel == "gitpod.io/pvcFeature"
workspaceIDLabel == "workspaceID"

\* attempts of the mark operation before a write conflict is surfaced
MarkRetrySteps == 2

\* error codes the node daemon reports
DaemonErrorCodes == {"Internal", "ResourceExhausted", "Unavailable"}

\* what the RPC client returns when the call's context is cancelled while the
\* RPC is in flight
CancelledResponse == [code |-> "Canceled", url |-> <<>>]

DaemonURL(id, n) ==
    <<"b","a","c","k","u","p",":","/","/">> \o id \o <<"/">> \o FormatInt(n)

\* what the daemon answers to a request for workspace id
DaemonResponses(id) ==
    { [code |-> "OK", url |-> DaemonURL(id, n)] : n \in 1..2 } \cup
    { [code |-> c, url |-> <<>>] : c \in DaemonErrorCodes }

(***************************************************************************)
(* The cluster object store.                                               *)
(***************************************************************************)
NoPod == [exists |-> FALSE]

\* the pod the orchestration layer creates for workspace id
NewPod(id, pvc) ==
    [ exists          |-> TRUE,
      name            |-> <<"w","s","-">> \o id,
      phase           |-> "CREATING",
      labels          |-> IF pvc
                          THEN (workspaceIDLabel :> id) @@
                               (pvcWorkspaceFeatureLabel :> <<"t","r","u","e">>)
                          ELSE (workspaceIDLabel :> id),
      annotations     |-> (ownerTokenAnnotation :> <<"t","o","k">>),
      resourceVersion |-> 1 ]

\* a mutation of AddMark: the value is appended to the one already there
AddMarkAppends(annotations, key, val) ==
    [k \in DOMAIN annotations \cup {key} |->
        IF k = key
        THEN (IF k \in DOMAIN annotations THEN annotations[k] ELSE <<>>) \o val
        ELSE annotations[k]]

\* addMark(key, val) applied to an annotation map
AddMark(annotations, key, val) ==
    [k \in DOMAIN annotations \cup {key} |->
        IF k = key THEN val ELSE annotations[k]]

(***************************************************************************)
(* Requests. calls[c] is the request caller c has in flight or has last    *)
(* completed: its arguments, its position (pc), the locals the handler     *)
(* holds across its blocking calls, what it did to the object store and    *)
(* the daemon, and its result.                                             *)
(***************************************************************************)
NoResult == [code |-> "none", url |-> <<>>]

IdleCall ==
    [ op                |-> "none",
      pc                |-> "idle",
      id                |-> <<>>,
      returnImmediately |-> FALSE,
      level             |-> 0,
      duration          |-> <<>>,
      noPod             |-> FALSE,   \* no backing pod when the request arrived
      readErr           |-> FALSE,   \* a read of the object store failed
      phase             |-> "none",  \* sts.Phase
      wso               |-> <<>>,    \* the pod name and labels read
      pvcFeatureEnabled |-> FALSE,
      nanos             |-> -1,      \* time.Now().UnixNano() as read
      name              |-> <<>>,    \* pvcVolumeSnapshotName
      created           |-> 0,       \* volume-snapshot objects created
      contacted         |-> FALSE,   \* a daemon connection was attempted
      dreq              |-> <<>>,    \* the request the daemon received
      dresp             |-> <<>>,    \* the daemon's answer
      key               |-> "none",  \* the mark
      val               |-> <<>>,
      mpod              |-> NoPod,   \* the pod as read by the mark operation
      retries           |-> 0,
      markErr           |-> "none",  \* why markWorkspace failed
      wrote             |-> 0,       \* annotation writes
      result            |-> NoResult,
      cancelled         |-> FALSE,   \* the caller cancelled the context while
                                     \* the handler was blocked
      snap              |-> <<>>,    \* the GetVolumeSnapshotResponse
      rvBegin           |-> 0,       \* the pod's version when the mark request arrived
      rvQuiet           |-> 0,       \* the pod's version when the mark returned, if
                                     \* nothing else changed the pod meanwhile
      repeat            |-> FALSE ]  \* the request repeats the caller's last one

\* a request of caller p enters its handler
NewCall(p, op, id) ==
    [IdleCall EXCEPT !.op = op, !.id = id, !.noPod = ~pods[id].exists]

\* the handler returns: its result stays, the objects it held are dropped
Done(c, code, url) ==
    [c EXCEPT !.pc = "done", !.result = [code |-> code, url |-> url],
              !.wso = <<>>, !.mpod = NoPod, !.rvBegin = 0]

\* the resourceVersion of the pod of workspace id, 0 when there is none
VersionOf(id) == IF pods[id].exists THEN pods[id].resourceVersion ELSE 0

\* a request that marks the workspace enters its handler. rvBegin is the
\* pod's version then. repeat: the caller's previous request was the same
\* mark, it succeeded, and the pod has changed neither while it ran nor since
NewMarkCall(p, op, id, level, duration) ==
    LET last == calls[p]
    IN  [NewCall(p, op, id) EXCEPT
            !.level = level, !.duration = duration,
            !.rvBegin = VersionOf(id),
            !.repeat = /\ last.pc = "done"
                       /\ last.result.code = "OK"
                       /\ last.op = op /\ last.id = id
                       /\ last.level = level /\ last.duration = duration
                       /\ last.rvQuiet > 0
                       /\ last.rvQuiet = VersionOf(id)]

(***************************************************************************)
(* Status watchers (GitpodPublicApiManager.watchWorkspace). watchers[w] is *)
(* one subscription: the job, the request it sent, its response channel    *)
(* and what its consumer was handed. seq counts the events the server has  *)
(* pushed.                                                                  *)
(***************************************************************************)
Watchers == {"a", "b"}

\* a String? argument: <<>> is null, <<s>> is the string s
NullString == <<>>

\* the workspaceId arguments: null, "" and "w1"
WatchWorkspaceIDs == { NullString, << <<>> >>, << <<"w","1">> >> }

\* workspaceId.isNullOrEmpty()
IsNullOrEmpty(workspaceId) == workspaceId = NullString \/ workspaceId[1] = <<>>

\* WatchWorkspaceStatusRequest.newBuilder(), setWorkspaceId under the
\* condition, build()
WatchRequest(workspaceId) ==
    IF ~IsNullOrEmpty(workspaceId)
    THEN [hasWorkspaceId |-> TRUE, workspaceId |-> workspaceId[1]]
    ELSE [hasWorkspaceId |-> FALSE, workspaceId |-> <<>>]

\* the server's filter: a request without workspace ID matches every workspace
WatchMatches(req, workspaceID) ==
    req.workspaceId = <<>> \/ req.workspaceId = workspaceID

IdleWatcher ==
    [ pc          |-> "none",     \* none, launched, receiving, and how it ended:
                                  \* threw, cancelled, failed, completed
      workspaceId |-> NullString,
      req         |-> <<>>,       \* the request sent, if any
      chan        |-> "none",     \* the response channel: none, open, cancelled
      queue       |-> <<>>,       \* responses the channel holds
      delivered   |-> <<>>,       \* the consumer's calls
      endSeq      |-> 0 ]         \* events the server had pushed when the
                                  \* watcher ended

\* the ways a watcher ends: watchWorkspace threw, the job was cancelled, the
\* consumer threw, the stream ended
EndedPcs == {"threw", "cancelled", "failed", "completed"}

WatcherEnded(w) == watchers[w].pc \in EndedPcs

\* Utils.coroutineScope: the failure of one job does not cancel the other
\* jobs of the scope
SupervisorScope == TRUE

\* budget[p] is the number of requests caller p may still issue
CanStart(p) == calls[p].pc \in {"idle", "done"} /\ budget[p] > 0

InitStore ==
    /\ pods \in [WorkspaceIDs -> {NoPod}] \cup
                { [id \in WorkspaceIDs |->
                     IF id = BackedWorkspaceID THEN NewPod(id, pvc) ELSE NoPod] :
                    pvc \in BOOLEAN }
    /\ snapshots = <<>>
    /\ now = 0
    /\ calls = [p \in Procs |-> IdleCall]
    /\ watchers = [w \in Watchers |-> IdleWatcher]
    /\ seq = 0

\* one caller issues MaxCalls requests one after the other
Init ==
    /\ InitStore
    /\ budget = [p \in Procs |-> IF p = "c1" THEN MaxCalls ELSE 0]

\* every caller issues one request; the requests run concurrently
InitRace ==
    /\ InitStore
    /\ budget = [p \in Procs |-> 1]

(***************************************************************************)
(* The environment: the orchestration layer, the cluster and the clock.    *)
(***************************************************************************)
\* a kubelet/controller event moves the workspace to its next phase
PhaseTransition(id) ==
    /\ pods[id].exists
    /\ pods[id].phase # "STOPPED"
    /\ pods' = [pods EXCEPT ![id].phase = NextPhase(@),
                            ![id].resourceVersion = @ + 1]
    /\ UNCHANGED <<watchers, seq, snapshots, now, calls, budget>>

\* the stopped pod is garbage-collected
DeletePod(id) ==
    /\ pods[id].exists
    /\ pods[id].phase = "STOPPED"
    /\ pods' = [pods EXCEPT ![id] = NoPod]
    /\ UNCHANGED <<watchers, seq, snapshots, now, calls, budget>>

\* the cluster finishes materializing a volume snapshot
SnapshotBecomesReady(n) ==
    /\ ~snapshots[n].ready
    /\ snapshots' = [snapshots EXCEPT ![n].ready = TRUE]
    /\ UNCHANGED <<watchers, seq, pods, now, calls, budget>>

\* the wall clock advances
Tick ==
    /\ now < MaxClock
    /\ now' = now + 1
    /\ UNCHANGED <<watchers, seq, pods, snapshots, calls, budget>>

(***************************************************************************)
(* TakeSnapshot                                                            *)
(***************************************************************************)
\* a mutation of SnapshotPhaseOK: a workspace still starting is accepted too
SnapshotPhaseOKWhileCreating(phase) == phase \in {"RUNNING", "CREATING"}

\* sts.Phase != api.WorkspacePhase_RUNNING is rejected
SnapshotPhaseOK(phase) == phase = "RUNNING"

\* a mutation of SnapshotStrategy: every snapshot goes through the daemon
SnapshotStrategyAlwaysDaemon(pvcFeatureEnabled) == "connect"

\* the branch on pvcFeatureEnabled: the next step of the handler
SnapshotStrategy(pvcFeatureEnabled) ==
    IF pvcFeatureEnabled THEN "createSnapshot" ELSE "connect"

\* a mutation of PvcVolumeSnapshotName: the clock is read in coarser units
\* (time.Now().Unix() in place of UnixNano())
PvcVolumeSnapshotNameCoarse(workspaceID, nanos) ==
    <<"s","n","a","p","s","h","o","t","-">> \o workspaceID \o <<"-">> \o
    FormatInt(nanos \div 2)

\* fmt.Sprintf("snapshot-%s-%d", workspaceID, time.Now().UnixNano())
PvcVolumeSnapshotName(workspaceID, nanos) ==
    <<"s","n","a","p","s","h","o","t","-">> \o workspaceID \o <<"-">> \o
    FormatInt(nanos)

\* a mutation of DaemonError: the daemon's failure is re-wrapped
DaemonErrorRewrapped(code) == "Internal"

\* "err is already a grpc error": the code the caller sees for a daemon error
DaemonError(code) == code

\* &wsdaemon.TakeSnapshotRequest{Id: req.Id, ReturnImmediately: req.ReturnImmediately}
DaemonTakeSnapshotRequest(c) ==
    [method |-> "TakeSnapshot", id |-> c.id,
     returnImmediately |-> c.returnImmediately]

\* findWorkspacePod, getWorkspaceObjects, getWorkspaceStatus, the phase check
\* and the choice of the strategy
TakeSnapshot(p, id, ri) ==
    /\ CanStart(p)
    /\ budget' = [budget EXCEPT ![p] = @ - 1]
    /\ \E readErr \in BOOLEAN :
        LET c == [NewCall(p, "TakeSnapshot", id) EXCEPT !.returnImmediately = ri]
            pod == pods[id]
        IN  calls' = [calls EXCEPT ![p] =
              IF readErr
              THEN Done([c EXCEPT !.readErr = TRUE], "Internal", <<>>)
              ELSE IF ~pod.exists
              THEN Done(c, "NotFound", <<>>)
              ELSE IF ~SnapshotPhaseOK(pod.phase)
              THEN Done([c EXCEPT !.phase = pod.phase],
                        "FailedPrecondition", <<>>)
              ELSE LET pvc == pvcWorkspaceFeatureLabel \in DOMAIN pod.labels
                   IN  [c EXCEPT !.phase = pod.phase,
                                 !.wso = [name |-> pod.name,
                                          labels |-> pod.labels],
                                 !.pvcFeatureEnabled = pvc,
                                 !.pc = SnapshotStrategy(pvc)]]
    /\ UNCHANGED <<watchers, seq, pods, snapshots, now>>

\* a mutation of CreateVolumeSnapshot: the new object replaces the ones the
\* store held
CreateVolumeSnapshotReplacing(store, name, object) == (name :> object)

\* the store after createWorkspaceSnapshotFromPVC, for a name it does not
\* hold yet
CreateVolumeSnapshot(store, name, object) == store @@ (name :> object)

\* the volume-snapshot strategy: the name is formatted from the clock and
\* createWorkspaceSnapshotFromPVC asks the cluster for the object
TakeSnapshotCreate(p) ==
    LET c     == calls[p]
        wsid  == c.wso.labels[workspaceIDLabel]
        nm    == PvcVolumeSnapshotName(wsid, now)
        c1    == [c EXCEPT !.nanos = now, !.name = nm]
        after(cc) == IF cc.returnImmediately
                     THEN Done(cc, "OK", nm)
                     ELSE [cc EXCEPT !.pc = "waitSnapshot"]
    IN  /\ c.pc = "createSnapshot"
        /\ \E createErr \in BOOLEAN :
            IF createErr
            THEN /\ calls' = [calls EXCEPT ![p] = Done(c1, "Internal", <<>>)]
                 /\ UNCHANGED snapshots
            ELSE IF nm \in DOMAIN snapshots
            THEN \* the object store holds one object per name: nothing is
                 \* created, and the create call reports it or not
                 /\ \/ calls' = [calls EXCEPT ![p] = Done(c1, "Internal", <<>>)]
                    \/ calls' = [calls EXCEPT ![p] = after(c1)]
                 /\ UNCHANGED snapshots
            ELSE /\ snapshots' = CreateVolumeSnapshot(snapshots, nm,
                               [ pvcName     |-> c.wso.name,
                                 workspaceID |-> wsid,
                                 labels      |-> c.wso.labels,
                                 ready       |-> FALSE ])
                 /\ calls' = [calls EXCEPT ![p] =
                                after([c1 EXCEPT !.created = @ + 1])]
        /\ UNCHANGED <<watchers, seq, pods, now, budget>>

\* how waitForWorkspaceVolumeSnapshotReady can end: with no error, with an
\* error of the cluster, or because the context was cancelled
WaitErrors == {"none", "failed", "cancelled"}

\* a mutation of SnapshotWaitCode: the ready flag is not looked at
SnapshotWaitCodeIgnoresReady(waitErr, ready) ==
    IF waitErr # "none" THEN "Internal" ELSE "OK"

\* the two checks after the wait: err != nil is Internal ("cannot wait for
\* volume snapshot to be ready"), !ready is Internal ("volume snapshot is
\* not ready")
SnapshotWaitCode(waitErr, ready) ==
    IF waitErr # "none" THEN "Internal"
    ELSE IF ~ready THEN "Internal"
    ELSE "OK"

\* waitForWorkspaceVolumeSnapshotReady returns: with an error, or with the
\* readiness it observed (not ready when its deadline ended the polling)
TakeSnapshotWait(p) ==
    LET c == calls[p]
    IN  /\ c.pc = "waitSnapshot"
        /\ \E waitErr \in WaitErrors :
           \E ready \in {FALSE, waitErr = "none" /\ snapshots[c.name].ready} :
            LET code == SnapshotWaitCode(waitErr, ready)
                c1   == [c EXCEPT !.cancelled = (waitErr = "cancelled")]
            IN  calls' = [calls EXCEPT ![p] =
                    Done(c1, code, IF code = "OK" THEN c.name ELSE <<>>)]
        /\ UNCHANGED <<watchers, seq, pods, snapshots, now, budget>>

\* a mutation of DaemonConnectError: the connection failure is reported as
\* any other failure of the handler
DaemonConnectErrorInternal == "Internal"

\* status.Errorf(codes.Unavailable, "cannot connect to workspace daemon: %q", err)
DaemonConnectError == "Unavailable"

\* connectToWorkspaceDaemon, in TakeSnapshot and in BackupWorkspace
ConnectToWorkspaceDaemon(p) ==
    LET c == calls[p]
    IN  /\ c.pc = "connect"
        /\ \E ok \in BOOLEAN :
            calls' = [calls EXCEPT ![p] =
                IF ok THEN [c EXCEPT !.contacted = TRUE, !.pc = "rpc"]
                ELSE Done([c EXCEPT !.contacted = TRUE],
                          DaemonConnectError, <<>>)]
        /\ UNCHANGED <<watchers, seq, pods, snapshots, now, budget>>

\* sync.TakeSnapshot: the daemon receives the request and answers
DaemonTakeSnapshot(p) ==
    LET c == calls[p]
    IN  /\ c.pc = "rpc"
        /\ c.op = "TakeSnapshot"
        /\ \E r \in DaemonResponses(c.id) \cup {CancelledResponse} :
            LET c1 == [c EXCEPT !.dreq = <<DaemonTakeSnapshotRequest(c)>>,
                                !.dresp = <<r>>,
                                !.cancelled = (r = CancelledResponse)]
            IN  calls' = [calls EXCEPT ![p] =
                    IF r.code = "OK" THEN Done(c1, "OK", r.url)
                    ELSE Done(c1, DaemonError(r.code), <<>>)]
        /\ UNCHANGED <<watchers, seq, pods, snapshots, now, budget>>

(***************************************************************************)
(* BackupWorkspace                                                         *)
(***************************************************************************)
\* a mutation of DaemonBackupRequest: the backup is asked for under the
\* pod's name
DaemonBackupRequestByPodName(c) ==
    [method |-> "BackupWorkspace", id |-> <<"w","s","-">> \o c.id,
     returnImmediately |-> FALSE]

\* &wsdaemon.BackupWorkspaceRequest{Id: req.Id}
DaemonBackupRequest(c) ==
    [method |-> "BackupWorkspace", id |-> c.id, returnImmediately |-> FALSE]

BackupWorkspace(p, id) ==
    /\ CanStart(p)
    /\ budget' = [budget EXCEPT ![p] = @ - 1]
    /\ \E readErr \in BOOLEAN :
        LET c == NewCall(p, "BackupWorkspace", id)
            pod == pods[id]
        IN  calls' = [calls EXCEPT ![p] =
              IF readErr
              THEN Done([c EXCEPT !.readErr = TRUE], "Internal", <<>>)
              ELSE IF ~pod.exists
              THEN Done(c, "NotFound", <<>>)
              ELSE \* the handler reads no status: phase only records the
                   \* phase the workspace was in when the request arrived
                   [c EXCEPT !.phase = pod.phase, !.pc = "connect"]]
    /\ UNCHANGED <<watchers, seq, pods, snapshots, now>>

\* sync.BackupWorkspace: the daemon receives the request and answers
DaemonBackupWorkspace(p) ==
    LET c == calls[p]
    IN  /\ c.pc = "rpc"
        /\ c.op = "BackupWorkspace"
        /\ \E r \in DaemonResponses(c.id) \cup {CancelledResponse} :
            LET c1 == [c EXCEPT !.dreq = <<DaemonBackupRequest(c)>>,
                                !.dresp = <<r>>,
                                !.cancelled = (r = CancelledResponse)]
            IN  calls' = [calls EXCEPT ![p] =
                    IF r.code = "OK" THEN Done(c1, "OK", r.url)
                    ELSE Done(c1, DaemonError(r.code), <<>>)]
        /\ UNCHANGED <<watchers, seq, pods, snapshots, now, budget>>

(***************************************************************************)
(* ControlAdmission and SetTimeout                                         *)
(***************************************************************************)
\* a mutation of AdmissionPhaseRejected: only a stopped workspace is refused
AdmissionPhaseRejectedStoppedOnly(phase) == phase = "STOPPED"

\* sts.Phase == STOPPING || sts.Phase == STOPPED
AdmissionPhaseRejected(phase) == phase \in {"STOPPING", "STOPPED"}

\* val, ok := api.AdmissionLevel_name[int32(req.Level)]
AdmissionLevelKnown(level) == level \in DOMAIN AdmissionLevel_name

\* val = strings.ToLower(val)
AdmissionValue(level) ==
    IF level \in DOMAIN AdmissionLevel_name
    THEN ToLower(AdmissionLevel_name[level]) ELSE <<>>

\* the code of the error a handler returns when markWorkspace fails:
\* ControlAdmission wraps it in status.Errorf(codes.Internal, ...), SetTimeout
\* in xerrors.Errorf, which carries no status code
MarkErrorCode(op) == IF op = "ControlAdmission" THEN "Internal" ELSE "Unknown"

ControlAdmission(p, id, level) ==
    /\ CanStart(p)
    /\ budget' = [budget EXCEPT ![p] = @ - 1]
    /\ \E readErr \in BOOLEAN :
        LET c == NewMarkCall(p, "ControlAdmission", id, level, <<>>)
            pod == pods[id]
        IN  calls' = [calls EXCEPT ![p] =
              IF readErr
              THEN Done([c EXCEPT !.readErr = TRUE], "Internal", <<>>)
              ELSE IF ~pod.exists
              THEN Done(c, "NotFound", <<>>)
              ELSE IF AdmissionPhaseRejected(pod.phase)
              THEN Done([c EXCEPT !.phase = pod.phase],
                        "FailedPrecondition", <<>>)
              ELSE IF ~AdmissionLevelKnown(level)
              THEN Done([c EXCEPT !.phase = pod.phase],
                        "InvalidArgument", <<>>)
              ELSE [c EXCEPT !.phase = pod.phase,
                             !.key = WorkspaceAdmissionAnnotation,
                             !.val = AdmissionValue(level),
                             !.pc = "markGet"]]
    /\ UNCHANGED <<watchers, seq, pods, snapshots, now>>

\* _, err = time.ParseDuration(req.Duration); err == nil
SetTimeoutParses(duration) == ParseDurationOK(duration)

SetTimeout(p, id, duration) ==
    /\ CanStart(p)
    /\ budget' = [budget EXCEPT ![p] = @ - 1]
    /\ LET c == NewMarkCall(p, "SetTimeout", id, 0, duration)
       IN  calls' = [calls EXCEPT ![p] =
              IF ~SetTimeoutParses(duration)
              THEN \* xerrors.Errorf("invalid duration ..."): no status code
                   Done(c, "Unknown", <<>>)
              ELSE [c EXCEPT !.key = customTimeoutAnnotation,
                             !.val = duration,
                             !.pc = "markGet"]]
    /\ UNCHANGED <<watchers, seq, pods, snapshots, now>>

(***************************************************************************)
(* markWorkspace: read the pod, apply the mark, write the pod back; a      *)
(* write conflict is retried.                                              *)
(***************************************************************************)
\* markWorkspace returns an error to its handler
MarkFailed(c, why) ==
    Done([c EXCEPT !.markErr = why], MarkErrorCode(c.op), <<>>)

\* a mutation of MarkConflict: the write goes through whatever the version
MarkConflictIgnored(pod, mpod) == FALSE

\* the object store refuses a write made from a stale read
MarkConflict(pod, mpod) == pod.resourceVersion # mpod.resourceVersion

\* a mutation of MarkedPod: the mark also asks for the workspace to stop
MarkedPodStopping(mpod, key, val) ==
    [mpod EXCEPT !.annotations = AddMark(mpod.annotations, key, val),
                 !.phase = "STOPPING",
                 !.resourceVersion = @ + 1]

\* the pod the mark operation writes back: the pod it read with the mark
\* applied; the store gives it a new version when it differs
MarkedPod(mpod, key, val) ==
    LET ann == AddMark(mpod.annotations, key, val)
    IN  [mpod EXCEPT !.annotations = ann,
                     !.resourceVersion =
                         IF ann = mpod.annotations THEN @ ELSE @ + 1]

MarkWorkspaceGet(p) ==
    LET c == calls[p]
    IN  /\ c.pc = "markGet"
        /\ \E readErr \in BOOLEAN :
            calls' = [calls EXCEPT ![p] =
                IF readErr
                THEN MarkFailed(c, "read")
                ELSE IF ~pods[c.id].exists
                THEN MarkFailed(c, "notfound")
                ELSE [c EXCEPT !.mpod = pods[c.id], !.pc = "markUpdate"]]
        /\ UNCHANGED <<watchers, seq, pods, snapshots, now, budget>>

MarkWorkspaceUpdate(p) ==
    LET c   == calls[p]
        pod == pods[c.id]
    IN  /\ c.pc = "markUpdate"
        /\ IF ~pod.exists
           THEN \* the pod is gone: the update fails
                /\ calls' = [calls EXCEPT ![p] = MarkFailed(c, "notfound")]
                /\ UNCHANGED pods
           ELSE IF MarkConflict(pod, c.mpod)
           THEN \* write conflict: try again, a bounded number of times
                /\ calls' = [calls EXCEPT ![p] =
                        IF c.retries + 1 < MarkRetrySteps
                        THEN [c EXCEPT !.retries = @ + 1, !.pc = "markGet"]
                        ELSE MarkFailed([c EXCEPT !.retries = @ + 1],
                                        "conflict")]
                /\ UNCHANGED pods
           ELSE LET written == MarkedPod(c.mpod, c.key, c.val)
                IN  /\ pods' = [pods EXCEPT ![c.id] = written]
                    /\ calls' = [calls EXCEPT ![p] =
                            Done([c EXCEPT !.wrote = @ + 1,
                                           !.rvQuiet =
                                             IF pod.resourceVersion = c.rvBegin
                                             THEN written.resourceVersion
                                             ELSE 0],
                                 "OK", <<>>)]
        /\ UNCHANGED <<watchers, seq, snapshots, now, budget>>

(***************************************************************************)
(* GetVolumeSnapshot                                                       *)
(***************************************************************************)
\* req.Id values: the name of the first snapshot of either workspace
RequestSnapshotIDs == { PvcVolumeSnapshotName(id, 0) : id \in WorkspaceIDs }

\* what checkWorkspaceVolumeSnapshotIsReady reports for snapshot id: an
\* error of the read, NotFound for a name the store does not hold, or the
\* object's readiness
CheckWorkspaceVolumeSnapshotIsReady(id, readErr) ==
    IF readErr THEN [err |-> "failed", ready |-> FALSE]
    ELSE IF id \notin DOMAIN snapshots THEN [err |-> "NotFound", ready |-> FALSE]
    ELSE [err |-> "none", ready |-> snapshots[id].ready]

\* a mutation of GetVolumeSnapshotError: NotFound is not singled out
GetVolumeSnapshotErrorInternal(err) == "Internal"

\* status.Code(err) == codes.NotFound is returned as NotFound, every other
\* error as Internal
GetVolumeSnapshotError(err) ==
    IF err = "NotFound" THEN "NotFound" ELSE "Internal"

GetVolumeSnapshot(p, id) ==
    /\ CanStart(p)
    /\ budget' = [budget EXCEPT ![p] = @ - 1]
    /\ \E readErr \in BOOLEAN :
        LET c == [IdleCall EXCEPT !.op = "GetVolumeSnapshot", !.id = id,
                                  !.readErr = readErr]
            r == CheckWorkspaceVolumeSnapshotIsReady(id, readErr)
        IN  calls' = [calls EXCEPT ![p] =
              IF r.err # "none"
              THEN Done(c, GetVolumeSnapshotError(r.err), <<>>)
              ELSE Done([c EXCEPT !.snap = <<[id |-> id, ready |-> r.ready]>>],
                        "OK", <<>>)]
    /\ UNCHANGED <<watchers, seq, pods, snapshots, now>>

(***************************************************************************)
(* watchWorkspace                                                          *)
(***************************************************************************)
\* a mutation of ChannelAfterLoop: the loop is left without the finally block
ChannelLeftOpen == "open"

\* finally { chan.cancel() }
ChannelAfterLoop == "cancelled"

\* the watcher leaves its receive loop: the finally block runs
LeaveLoop(w, how) ==
    [watchers[w] EXCEPT !.pc = how, !.chan = ChannelAfterLoop,
                        !.queue = <<>>, !.endSeq = seq]

\* the job of watcher w is cancelled: before its body ran it just ends; in
\* the loop the receive throws CancellationException
CancelledWatcher(w) ==
    IF watchers[w].pc = "launched"
    THEN [watchers[w] EXCEPT !.pc = "cancelled", !.endSeq = seq]
    ELSE LeaveLoop(w, "cancelled")

\* watchWorkspace(workspaceId, consumer): without a client it throws,
\* otherwise the job is launched
WatchWorkspace(w, workspaceId) ==
    /\ watchers[w].pc = "none"
    /\ \E hasClient \in BOOLEAN :
        watchers' = [watchers EXCEPT ![w] =
            IF hasClient
            THEN [@ EXCEPT !.pc = "launched", !.workspaceId = workspaceId]
            ELSE [@ EXCEPT !.pc = "threw", !.workspaceId = workspaceId,
                           !.endSeq = seq]]
    /\ UNCHANGED <<pods, snapshots, now, calls, budget, seq>>

\* the job's body runs up to its loop: the request is built and sent and
\* the response channel is taken
WatchStart(w) ==
    /\ watchers[w].pc = "launched"
    /\ watchers' = [watchers EXCEPT ![w] =
            [@ EXCEPT !.pc = "receiving",
                      !.req = <<WatchRequest(watchers[w].workspaceId)>>,
                      !.chan = "open"]]
    /\ UNCHANGED <<pods, snapshots, now, calls, budget, seq>>

\* the server pushes a status event of workspace id to the open channels
\* whose request matches
ServerPush(id) ==
    /\ seq < MaxEvents
    /\ seq' = seq + 1
    /\ watchers' = [w \in Watchers |->
            IF watchers[w].chan = "open" /\ WatchMatches(watchers[w].req[1], id)
            THEN [watchers[w] EXCEPT
                    !.queue = Append(@, [workspaceId |-> id, seq |-> seq + 1])]
            ELSE watchers[w]]
    /\ UNCHANGED <<pods, snapshots, now, calls, budget>>

\* for (response in chan) { consumer(response.workspaceId, response.status) }:
\* one response is taken and the consumer returns or throws
WatchReceive(w) ==
    /\ watchers[w].pc = "receiving"
    /\ watchers[w].queue # <<>>
    /\ \E throws \in BOOLEAN :
        LET got == [watchers[w] EXCEPT !.delivered = Append(@, Head(watchers[w].queue)),
                                       !.queue = Tail(@)]
        IN  watchers' = [v \in Watchers |->
                IF v = w
                THEN (IF throws
                      THEN [LeaveLoop(w, "failed") EXCEPT
                                !.delivered = got.delivered]
                      ELSE got)
                ELSE IF /\ throws /\ ~SupervisorScope
                        /\ watchers[v].pc \in {"launched", "receiving"}
                THEN CancelledWatcher(v)
                ELSE watchers[v]]
    /\ UNCHANGED <<pods, snapshots, now, calls, budget, seq>>

\* the caller cancels the job
WatchCancel(w) ==
    /\ watchers[w].pc \in {"launched", "receiving"}
    /\ watchers' = [watchers EXCEPT ![w] = CancelledWatcher(w)]
    /\ UNCHANGED <<pods, snapshots, now, calls, budget, seq>>

\* the server ends the stream: the channel is closed and the loop ends once
\* the responses it held are consumed
WatchStreamEnds(w) ==
    /\ watchers[w].pc = "receiving"
    /\ watchers[w].queue = <<>>
    /\ watchers' = [watchers EXCEPT ![w] = LeaveLoop(w, "completed")]
    /\ UNCHANGED <<pods, snapshots, now, calls, budget, seq>>

(***************************************************************************)
(* The specification.                                                      *)
(***************************************************************************)
\* the steps of the callers and of the environment
Next ==
    \/ \E p \in Procs, id \in WorkspaceIDs, ri \in BOOLEAN :
            TakeSnapshot(p, id, ri)
    \/ \E p \in Procs : TakeSnapshotCreate(p)
    \/ \E p \in Procs : TakeSnapshotWait(p)
    \/ \E p \in Procs : ConnectToWorkspaceDaemon(p)
    \/ \E p \in Procs : DaemonTakeSnapshot(p)
    \/ \E p \in Procs, id \in WorkspaceIDs : BackupWorkspace(p, id)
    \/ \E p \in Procs : DaemonBackupWorkspace(p)
    \/ \E p \in Procs, id \in WorkspaceIDs, level \in RequestLevels :
            ControlAdmission(p, id, level)
    \/ \E p \in Procs, id \in WorkspaceIDs, d \in RequestDurations :
            SetTimeout(p, id, d)
    \/ \E p \in Procs, id \in RequestSnapshotIDs : GetVolumeSnapshot(p, id)
    \/ \E p \in Procs : MarkWorkspaceGet(p)
    \/ \E p \in Procs : MarkWorkspaceUpdate(p)
    \/ \E id \in WorkspaceIDs : PhaseTransition(id)
    \/ \E id \in WorkspaceIDs : DeletePod(id)
    \/ \E n \in DOMAIN snapshots : SnapshotBecomesReady(n)
    \/ Tick

\* requests in sequence, interleaved with the environment
Spec == Init /\ [][Next]_vars

\* concurrent requests, interleaved with the environment
SpecRace == InitRace /\ [][Next]_vars

\* the steps of the status watchers and of the server that feeds them
NextWatch ==
    \/ \E w \in Watchers, workspaceId \in WatchWorkspaceIDs :
            WatchWorkspace(w, workspaceId)
    \/ \E w \in Watchers : WatchStart(w)
    \/ \E id \in WorkspaceIDs : ServerPush(id)
    \/ \E w \in Watchers : WatchReceive(w)
    \/ \E w \in Watchers : WatchCancel(w)
    \/ \E w \in Watchers : WatchStreamEnds(w)

\* the watchers on their own: no request is issued
InitWatch ==
    /\ InitStore
    /\ budget = [p \in Procs |-> 0]

\* concurrent status watchers
SpecWatch == InitWatch /\ [][NextWatch]_vars

(***************************************************************************)
(* The claims.                                                             *)
(***************************************************************************)
Completed(c) == c.pc = "done"

\* caller p's handler returns in this step (a request that is answered in
\* the step in which it arrives included)
Returns(p) ==
    /\ calls'[p].pc = "done"
    /\ (calls[p].pc # "done" \/ budget'[p] # budget[p])

\* C1: for a workspace ID that has no backing pod, TakeSnapshot,
\* BackupWorkspace, ControlAdmission and SetTimeout each return NotFound,
\* write no annotation, create no volume snapshot and never contact the
\* daemon (the lookup itself not failing).
C1_MissingPodIsNotFound ==
    \A p \in Procs :
        LET c == calls[p]
        IN  (Completed(c) /\ c.noPod /\ ~c.readErr /\ c.markErr # "read")
            => /\ c.result.code = "NotFound"
               /\ c.wrote = 0
               /\ c.created = 0
               /\ ~c.contacted

\* C1, without SetTimeout: the three handlers that look the pod up first
\* do return NotFound and do nothing else.
C1_MissingPodExceptSetTimeout ==
    \A p \in Procs :
        LET c == calls[p]
        IN  (Completed(c) /\ c.noPod /\ ~c.readErr /\ c.op # "SetTimeout")
            => /\ c.result.code = "NotFound"
               /\ c.wrote = 0
               /\ c.created = 0
               /\ ~c.contacted

\* C2: ControlAdmission with a level that is neither Owner nor Everyone
\* returns InvalidArgument in every phase of the workspace and writes no
\* admission annotation.
C2_UnknownLevelIsInvalidArgument ==
    \A p \in Procs :
        LET c == calls[p]
        IN  (Completed(c) /\ c.op = "ControlAdmission" /\ c.phase \in Phases
                /\ c.level \notin {0, 1})
            => /\ c.result.code = "InvalidArgument"
               /\ c.wrote = 0

\* C2, in the phases that pass the phase check: an unknown level is
\* InvalidArgument in CREATING and RUNNING, and nothing is written in any
\* phase.
C2_UnknownLevelWhileNotStopping ==
    \A p \in Procs :
        LET c == calls[p]
        IN  (Completed(c) /\ c.op = "ControlAdmission" /\ c.phase \in Phases
                /\ c.level \notin {0, 1})
            => /\ c.wrote = 0
               /\ c.phase \in {"CREATING", "RUNNING"}
                    => c.result.code = "InvalidArgument"

\* the lower-cased names of the admission levels, spelled out
ExpectedAdmission(level) ==
    IF level = 0 THEN <<"o","w","n","e","r">>
    ELSE <<"e","v","e","r","y","o","n","e">>

\* C3: ControlAdmission with a valid level returns FailedPrecondition on a
\* STOPPING or STOPPED workspace and leaves the pod as it is; on a CREATING
\* or RUNNING workspace it succeeds (the mark operation not failing) and the
\* admission annotation then holds the lower-cased name of the level.
C3_AdmissionByPhase ==
    [][\A p \in Procs :
        LET c == calls'[p]
        IN  (Returns(p) /\ c.op = "ControlAdmission" /\ c.phase \in Phases
                /\ c.level \in {0, 1})
            => /\ c.phase \in {"STOPPING", "STOPPED"}
                    => /\ c.result.code = "FailedPrecondition"
                       /\ c.wrote = 0
                       /\ pods' = pods
               /\ (c.phase \in {"CREATING", "RUNNING"} /\ c.markErr = "none")
                    => /\ c.result.code = "OK"
                       /\ pods'[c.id].exists
                       /\ WorkspaceAdmissionAnnotation
                            \in DOMAIN pods'[c.id].annotations
                       /\ pods'[c.id].annotations[WorkspaceAdmissionAnnotation]
                            = ExpectedAdmission(c.level)
    ]_vars

\* C3 happens: ControlAdmission(Everyone) succeeded on a RUNNING workspace
\* and the annotation reads "everyone".
C3_Witness ==
    \E p \in Procs :
        LET c == calls[p]
        IN  /\ Completed(c) /\ c.op = "ControlAdmission" /\ c.level = 1
            /\ c.phase = "RUNNING" /\ c.result.code = "OK"
            /\ pods[c.id].exists
            /\ WorkspaceAdmissionAnnotation \in DOMAIN pods[c.id].annotations
            /\ pods[c.id].annotations[WorkspaceAdmissionAnnotation]
                    = <<"e","v","e","r","y","o","n","e">>

\* C4: SetTimeout with a duration that does not parse returns
\* InvalidArgument and writes no annotation.
C4_BadDurationIsInvalidArgument ==
    \A p \in Procs :
        LET c == calls[p]
        IN  (Completed(c) /\ c.op = "SetTimeout"
                /\ c.duration \notin { <<"1","h">>, <<"9","0","m">> })
            => /\ c.result.code = "InvalidArgument"
               /\ c.wrote = 0

\* C4, the part about the annotations: a SetTimeout whose duration does not
\* parse returns an error and leaves every pod as it is.
C4_BadDurationWritesNothing ==
    [][\A p \in Procs :
        LET c == calls'[p]
        IN  (Returns(p) /\ c.op = "SetTimeout"
                /\ c.duration \notin { <<"1","h">>, <<"9","0","m">> })
            => /\ c.result.code # "OK"
               /\ c.wrote = 0
               /\ pods' = pods
    ]_vars

\* C5: TakeSnapshot on a workspace whose phase is not RUNNING returns
\* FailedPrecondition, creates no volume snapshot and does not contact the
\* daemon, with or without the PVC-feature label.
C5_SnapshotNeedsRunning ==
    \A p \in Procs :
        LET c == calls[p]
        IN  (c.op = "TakeSnapshot" /\ c.phase \in Phases \ {"RUNNING"})
            => /\ Completed(c)
               /\ c.result.code = "FailedPrecondition"
               /\ c.created = 0
               /\ ~c.contacted
               /\ \A n \in DOMAIN snapshots : n # c.name

\* C5 happens: TakeSnapshot was refused on a STOPPING workspace that carries
\* the PVC-feature label.
C5_Witness ==
    \E p \in Procs :
        LET c == calls[p]
        IN  /\ Completed(c) /\ c.op = "TakeSnapshot"
            /\ c.phase = "STOPPING"
            /\ c.result.code = "FailedPrecondition"
            /\ pods[c.id].exists
            /\ pvcWorkspaceFeatureLabel \in DOMAIN pods[c.id].labels

\* C6: the snapshot action of TakeSnapshot (creating the volume snapshot,
\* connecting to the daemon, the daemon's TakeSnapshot) happens only in a
\* state in which the workspace's phase is RUNNING.
C6_SnapshotActsWhileRunning ==
    [][\A p \in Procs :
        LET c == calls[p]
            d == calls'[p]
        IN  (/\ c.op = "TakeSnapshot" /\ d.op = "TakeSnapshot"
             /\ c.pc \in {"createSnapshot", "connect", "rpc"}
             /\ \/ d.created > c.created
                \/ d.contacted /\ ~c.contacted
                \/ d.dreq # c.dreq)
            => /\ pods[c.id].exists
               /\ pods[c.id].phase = "RUNNING"
    ]_vars

\* C7: every successful TakeSnapshot on a PVC-labelled RUNNING workspace
\* creates exactly one volume snapshot, and the names of any two calls for
\* the same workspace are distinct, also when both read the same clock value.
C7_NamesNeverCollide ==
    /\ \A p \in Procs :
        LET c == calls[p]
        IN  (Completed(c) /\ c.op = "TakeSnapshot" /\ c.pvcFeatureEnabled
                /\ c.result.code = "OK")
            => c.created = 1
    /\ \A p, q \in Procs :
        LET c == calls[p]
            d == calls[q]
        IN  (p # q /\ c.op = "TakeSnapshot" /\ d.op = "TakeSnapshot"
                /\ c.id = d.id /\ c.nanos >= 0 /\ d.nanos >= 0)
            => c.name # d.name

\* the other callers' TakeSnapshot requests for the workspace of caller p's
\* request that read the clock value it read. Under SpecRace every caller
\* issues one request, so these are all the other requests there are.
SameTick(p) ==
    { q \in Procs \ {p} :
        /\ calls[q].op = "TakeSnapshot"
        /\ calls[q].id = calls[p].id
        /\ calls[q].nanos = calls[p].nanos }

\* C7, as the code has it: two TakeSnapshot calls for the same workspace that
\* read different clock values produce distinct names, and a successful call
\* whose clock value no other call for the workspace read has created
\* exactly one volume snapshot, which carries the call's name.
C7_NamesDistinctAcrossTicks ==
    /\ \A p \in Procs :
        LET c == calls[p]
        IN  (Completed(c) /\ c.op = "TakeSnapshot" /\ c.pvcFeatureEnabled
                /\ c.result.code = "OK" /\ SameTick(p) = {})
            => /\ c.created = 1
               /\ c.name \in DOMAIN snapshots
               /\ snapshots[c.name].workspaceID = c.id
               /\ c.result.url = c.name
    /\ \A p, q \in Procs :
        LET c == calls[p]
            d == calls[q]
        IN  (p # q /\ c.op = "TakeSnapshot" /\ d.op = "TakeSnapshot"
                /\ c.id = d.id /\ c.nanos >= 0 /\ d.nanos >= 0
                /\ c.nanos # d.nanos)
            => c.name # d.name

\* C7 happens: two callers took a snapshot of the same workspace at
\* different clock values; each created one object, under its own name.
C7_Witness ==
    \E p, q \in Procs :
        LET c == calls[p]
            d == calls[q]
        IN  /\ p # q
            /\ Completed(c) /\ Completed(d)
            /\ c.op = "TakeSnapshot" /\ d.op = "TakeSnapshot"
            /\ c.id = d.id
            /\ c.result.code = "OK" /\ d.result.code = "OK"
            /\ c.nanos = 0 /\ d.nanos = 1
            /\ c.created = 1 /\ d.created = 1
            /\ c.name = <<"s","n","a","p","s","h","o","t","-","w","1","-","0">>
            /\ d.name = <<"s","n","a","p","s","h","o","t","-","w","1","-","1">>
            /\ {c.name, d.name} \subseteq DOMAIN snapshots

\* C8: ControlAdmission and SetTimeout are idempotent: when a caller repeats
\* the request it has just completed successfully, and nothing else changes
\* the pod from the arrival of the first request to the return of the
\* second, the second returns no error and leaves the pod, its annotations
\* included, as the first left it.
C8_MarksAreIdempotent ==
    [][\A p \in Procs :
        LET c == calls[p]
            d == calls'[p]
        IN  (/\ Returns(p)
             /\ d.op \in {"ControlAdmission", "SetTimeout"}
             /\ d.repeat
             /\ ~d.readErr /\ d.markErr # "read"
             /\ \/ budget'[p] # budget[p]
                \/ VersionOf(c.id) = c.rvBegin)
            => /\ d.result.code = "OK"
               /\ d.wrote = 1
               /\ pods' = pods
    ]_vars

\* C8 happens: SetTimeout("1h") was repeated on an undisturbed workspace and
\* succeeded again; the annotation still reads "1h".
C8_Witness ==
    \E p \in Procs :
        LET c == calls[p]
        IN  /\ Completed(c) /\ c.op = "SetTimeout" /\ c.repeat
            /\ c.duration = <<"1","h">>
            /\ c.result.code = "OK" /\ c.wrote = 1
            /\ pods[c.id].exists
            /\ pods[c.id].annotations =
                 [k \in {ownerTokenAnnotation, customTimeoutAnnotation} |->
                    IF k = customTimeoutAnnotation THEN <<"1","h">>
                    ELSE <<"t","o","k">>]

\* C9: the strategy of a TakeSnapshot call follows the PVC-feature label of
\* the pod and the strategies are never mixed: with the label the call
\* creates a volume snapshot and never contacts the daemon, without it the
\* call goes to the daemon and never creates a volume snapshot.
C9_StrategyFollowsLabel ==
    \A p \in Procs :
        LET c == calls[p]
        IN  c.op = "TakeSnapshot"
            => /\ (c.pvcFeatureEnabled /\ c.phase = "RUNNING")
                    => /\ ~c.contacted
                       /\ c.dreq = <<>>
                       /\ c.pc \in {"createSnapshot", "waitSnapshot", "done"}
               /\ (~c.pvcFeatureEnabled /\ c.phase = "RUNNING")
                    => /\ c.created = 0
                       /\ c.name = <<>>
                       /\ c.pc \in {"connect", "rpc", "done"}
               /\ (c.pc \in {"connect", "rpc"} \/ c.contacted)
                    => ~c.pvcFeatureEnabled
               /\ (c.pc \in {"createSnapshot", "waitSnapshot"}
                        \/ c.created > 0)
                    => c.pvcFeatureEnabled
               /\ (c.phase = "RUNNING" /\ pods[c.id].exists)
                    => c.pvcFeatureEnabled =
                        (pvcWorkspaceFeatureLabel \in DOMAIN pods[c.id].labels)

\* C9 happens: a TakeSnapshot on a labelled pod created its volume snapshot
\* without contacting the daemon.
C9_Witness ==
    \E p \in Procs :
        LET c == calls[p]
        IN  /\ Completed(c) /\ c.op = "TakeSnapshot"
            /\ c.result.code = "OK"
            /\ c.pvcFeatureEnabled /\ c.created = 1 /\ ~c.contacted
            /\ c.name \in DOMAIN snapshots

\* C10: in the daemon-mediated strategy TakeSnapshot forwards the request's
\* workspace ID and returnImmediately flag to the daemon, returns the
\* daemon's URL unchanged, and returns the daemon's error with its
\* classification unchanged.
C10_DaemonPassThrough ==
    \A p \in Procs :
        LET c == calls[p]
        IN  (c.op = "TakeSnapshot" /\ c.dreq # <<>>)
            => /\ Completed(c)
               /\ ~c.pvcFeatureEnabled /\ c.phase = "RUNNING"
               /\ c.dreq[1].method = "TakeSnapshot"
               /\ c.dreq[1].id = c.id
               /\ c.dreq[1].returnImmediately = c.returnImmediately
               /\ c.result = c.dresp[1]

\* C10 happens: TakeSnapshot(w1, returnImmediately = true) on an unlabelled
\* RUNNING pod returned the daemon's URL backup://w1/1.
C10_Witness ==
    \E p \in Procs :
        LET c == calls[p]
        IN  /\ Completed(c) /\ c.op = "TakeSnapshot"
            /\ c.id = <<"w","1">> /\ c.returnImmediately
            /\ c.dreq # <<>>
            /\ c.result.code = "OK"
            /\ c.result.url =
                 <<"b","a","c","k","u","p",":","/","/","w","1","/","1">>

\* C10 happens on the error side too: the daemon's ResourceExhausted came
\* back as ResourceExhausted.
C10_ErrorWitness ==
    \E p \in Procs :
        LET c == calls[p]
        IN  /\ Completed(c) /\ c.op = "TakeSnapshot"
            /\ c.dresp # <<>>
            /\ c.dresp[1].code = "ResourceExhausted"
            /\ c.result.code = "ResourceExhausted"

\* C11: in the volume-snapshot strategy a TakeSnapshot with
\* returnImmediately = false returns success only when its snapshot has been
\* observed ready, and every other end of the wait is Internal; with
\* returnImmediately = true the call never waits and returns the snapshot
\* name as URL right after the creation.
C11_SyncSuccessMeansReady ==
    \A p \in Procs :
        LET c == calls[p]
        IN  (c.op = "TakeSnapshot" /\ c.pvcFeatureEnabled)
            => /\ (~c.returnImmediately /\ Completed(c) /\ c.result.code = "OK")
                    => /\ c.name \in DOMAIN snapshots
                       /\ snapshots[c.name].ready
                       /\ c.result.url = c.name
               /\ (~c.returnImmediately /\ Completed(c) /\ c.nanos >= 0
                        /\ c.result.code # "OK")
                    => c.result.code = "Internal"
               /\ c.returnImmediately
                    => /\ c.pc # "waitSnapshot"
                       /\ (Completed(c) /\ c.created = 1)
                            => c.result = [code |-> "OK", url |-> c.name]

\* C11 happens: a synchronous TakeSnapshot returned the name of the snapshot
\* it created, which is ready.
C11_Witness ==
    \E p \in Procs :
        LET c == calls[p]
        IN  /\ Completed(c) /\ c.op = "TakeSnapshot" /\ c.pvcFeatureEnabled
            /\ ~c.returnImmediately /\ c.created = 1
            /\ c.result.code = "OK" /\ c.result.url = c.name
            /\ snapshots[c.name].ready

\* C11 happens on the other side too: a TakeSnapshot with returnImmediately
\* returned the name of a snapshot that is not ready yet.
C11_ImmediateWitness ==
    \E p \in Procs :
        LET c == calls[p]
        IN  /\ Completed(c) /\ c.op = "TakeSnapshot" /\ c.pvcFeatureEnabled
            /\ c.returnImmediately /\ c.created = 1
            /\ c.result.code = "OK" /\ c.result.url = c.name
            /\ ~snapshots[c.name].ready

\* C12: when the caller cancels the context while TakeSnapshot is blocked
\* in the readiness wait or in the daemon RPC, the call returns an error
\* classified as cancelled.
C12_CancelIsCancelled ==
    \A p \in Procs :
        LET c == calls[p]
        IN  (Completed(c) /\ c.op = "TakeSnapshot" /\ c.cancelled)
            => c.result.code = "Canceled"

\* C12, in the daemon RPC only: the client's Canceled status is passed
\* through; a cancellation during the readiness wait comes back as Internal.
C12_CancelByStrategy ==
    \A p \in Procs :
        LET c == calls[p]
        IN  (Completed(c) /\ c.op = "TakeSnapshot" /\ c.cancelled)
            => c.result.code =
                 (IF c.pvcFeatureEnabled THEN "Internal" ELSE "Canceled")

\* C13: BackupWorkspace has no phase precondition: for a workspace whose pod
\* exists, in whatever phase, the call connects to the daemon, asks it for
\* the backup of the same workspace ID and returns the daemon's answer
\* unchanged; it never returns FailedPrecondition.
C13_BackupInEveryPhase ==
    \A p \in Procs :
        LET c == calls[p]
        IN  (c.op = "BackupWorkspace" /\ c.phase \in Phases)
            => /\ c.result.code # "FailedPrecondition"
               /\ c.pc \in {"connect", "rpc", "done"}
               /\ Completed(c) => c.contacted
               /\ c.dreq # <<>>
                    => /\ c.dreq[1].method = "BackupWorkspace"
                       /\ c.dreq[1].id = c.id
               /\ (Completed(c) /\ c.dresp # <<>>) => c.result = c.dresp[1]
               /\ (Completed(c) /\ c.dresp = <<>>)
                    => c.result.code = "Unavailable"

\* C13 happens: BackupWorkspace(w1) arrived while the workspace was STOPPED
\* and returned the daemon's URL backup://w1/2.
C13_Witness ==
    \E p \in Procs :
        LET c == calls[p]
        IN  /\ Completed(c) /\ c.op = "BackupWorkspace"
            /\ c.phase = "STOPPED"
            /\ c.dreq # <<>> /\ c.dreq[1].id = <<"w","1">>
            /\ c.result.code = "OK"
            /\ c.result.url =
                 <<"b","a","c","k","u","p",":","/","/","w","1","/","2">>

\* C14: in TakeSnapshot (daemon-mediated) and BackupWorkspace a failure to
\* connect to the daemon is returned as Unavailable and no daemon RPC is
\* made in that call; the handler itself returns Unavailable for nothing
\* else, and a failure the daemon reports once connected comes back with the
\* daemon's own classification.
C14_ConnectFailureIsUnavailable ==
    /\ [](\A p \in Procs :
        LET c == calls[p]
        IN  (Completed(c) /\ c.op \in {"TakeSnapshot", "BackupWorkspace"}
                /\ c.result.code = "Unavailable")
            => \/ c.contacted /\ c.dreq = <<>> /\ c.dresp = <<>>
               \/ c.dresp # <<>> /\ c.dresp[1].code = "Unavailable")
    /\ [][\A p \in Procs :
            LET c == calls[p]
                d == calls'[p]
            IN  /\ (c.pc = "connect" /\ d.pc = "done")
                    => /\ d.result.code = "Unavailable"
                       /\ d.contacted
                       /\ d.dreq = <<>> /\ d.dresp = <<>>
                /\ (c.pc = "rpc" /\ d.pc = "done" /\ d.dresp[1].code # "OK")
                    => d.result.code = d.dresp[1].code
         ]_vars

\* C14 happens: a BackupWorkspace could not connect and returned
\* Unavailable without a daemon RPC.
C14_Witness ==
    \E p \in Procs :
        LET c == calls[p]
        IN  /\ Completed(c) /\ c.op = "BackupWorkspace"
            /\ c.contacted /\ c.dreq = <<>>
            /\ c.result.code = "Unavailable"

\* C14 happens on the other side too: connected, the daemon reported
\* ResourceExhausted to TakeSnapshot, which returned ResourceExhausted.
C14_RemoteErrorWitness ==
    \E p \in Procs :
        LET c == calls[p]
        IN  /\ Completed(c) /\ c.op = "TakeSnapshot"
            /\ c.dreq # <<>> /\ c.dresp[1].code = "ResourceExhausted"
            /\ c.result.code = "ResourceExhausted"

\* C15: concurrent SetTimeout and ControlAdmission on the same workspace lose
\* no update: whenever both have returned success the pod's annotations
\* hold the requested timeout and the requested admission level, and the
\* write of a call changes or removes no annotation other than its own key.
C15_NoLostUpdate ==
    /\ [](\A p, q \in Procs :
            LET c == calls[p]
                d == calls[q]
            IN  (/\ Completed(c) /\ c.op = "SetTimeout"
                 /\ Completed(d) /\ d.op = "ControlAdmission"
                 /\ c.result.code = "OK" /\ d.result.code = "OK"
                 /\ c.id = d.id /\ pods[c.id].exists)
                => LET ann == pods[c.id].annotations
                   IN  /\ {customTimeoutAnnotation, WorkspaceAdmissionAnnotation,
                           ownerTokenAnnotation} \subseteq DOMAIN ann
                       /\ ann[customTimeoutAnnotation] = c.duration
                       /\ ann[WorkspaceAdmissionAnnotation]
                            = ExpectedAdmission(d.level)
                       /\ ann[ownerTokenAnnotation] = <<"t","o","k">>)
    /\ [][\A p \in Procs :
            LET c == calls[p]
                d == calls'[p]
            IN  (c.pc = "markUpdate" /\ d.wrote > c.wrote)
                => LET old == pods[c.id].annotations
                       new == pods'[c.id].annotations
                   IN  /\ DOMAIN new = DOMAIN old \cup {c.key}
                       /\ new[c.key] = c.val
                       /\ \A k \in DOMAIN old \ {c.key} : new[k] = old[k]
         ]_vars

\* C15 happens: SetTimeout("90m") and ControlAdmission(Everyone) ran
\* concurrently on w1, one of them met a write conflict and tried again, both
\* succeeded and the pod holds both annotations.
C15_Witness ==
    \E p, q \in Procs :
        LET c == calls[p]
            d == calls[q]
        IN  /\ Completed(c) /\ c.op = "SetTimeout"
            /\ Completed(d) /\ d.op = "ControlAdmission" /\ d.level = 1
            /\ c.duration = <<"9","0","m">>
            /\ c.result.code = "OK" /\ d.result.code = "OK"
            /\ c.retries + d.retries > 0
            /\ pods[c.id].exists
            /\ pods[c.id].annotations =
                 [k \in {ownerTokenAnnotation, customTimeoutAnnotation,
                         WorkspaceAdmissionAnnotation} |->
                    IF k = customTimeoutAnnotation THEN <<"9","0","m">>
                    ELSE IF k = WorkspaceAdmissionAnnotation
                    THEN <<"e","v","e","r","y","o","n","e">>
                    ELSE <<"t","o","k">>]

\* C16: GetVolumeSnapshot is a pure readiness query: for a snapshot the
\* store holds it returns {ID, Ready} with the object's readiness, for an
\* unknown ID NotFound (the read itself not failing); the answer depends on
\* the snapshot object alone, not on the workspace's pod; the call changes
\* nothing; and a snapshot that is ready stays ready, so every later call
\* returns Ready: true.
C16_ReadinessQuery ==
    /\ [][\A p \in Procs :
            LET d == calls'[p]
            IN  (budget'[p] # budget[p] /\ d.op = "GetVolumeSnapshot")
                => /\ Completed(d)
                   /\ pods' = pods
                   /\ snapshots' = snapshots
                   /\ ~d.readErr
                        => IF d.id \in DOMAIN snapshots
                           THEN /\ d.result.code = "OK"
                                /\ d.snap = <<[id |-> d.id,
                                               ready |-> snapshots[d.id].ready]>>
                           ELSE /\ d.result.code = "NotFound"
                                /\ d.snap = <<>>
         ]_vars
    /\ [][\A n \in DOMAIN snapshots :
            snapshots[n].ready
                => (n \in DOMAIN snapshots' /\ snapshots'[n].ready)
         ]_vars

\* C16 happens: GetVolumeSnapshot returned Ready: true for snapshot-w1-0
\* after the pod of w1 was deleted.
C16_Witness ==
    \E p \in Procs :
        LET c == calls[p]
        IN  /\ Completed(c) /\ c.op = "GetVolumeSnapshot"
            /\ c.result.code = "OK"
            /\ c.snap = <<[id |-> <<"s","n","a","p","s","h","o","t","-",
                                    "w","1","-","0">>,
                           ready |-> TRUE]>>
            /\ ~pods[<<"w","1">>].exists

\* C16 happens for a snapshot that is not ready: Ready: false, the pod RUNNING.
C16_NotReadyWitness ==
    \E p \in Procs :
        LET c == calls[p]
        IN  /\ Completed(c) /\ c.op = "GetVolumeSnapshot"
            /\ c.result.code = "OK"
            /\ c.snap # <<>> /\ ~c.snap[1].ready
            /\ pods[<<"w","1">>].exists
            /\ pods[<<"w","1">>].phase = "RUNNING"

\* C16 happens for an unknown ID: NotFound while other snapshots exist.
C16_NotFoundWitness ==
    \E p \in Procs :
        LET c == calls[p]
        IN  /\ Completed(c) /\ c.op = "GetVolumeSnapshot"
            /\ ~c.readErr
            /\ c.result.code = "NotFound"
            /\ DOMAIN snapshots # {}

\* C17: no operation of the core changes a workspace's phase or creates or
\* deletes its pod: in every step a request takes (its arrival, a step of
\* its handler, its return) every pod that existed exists with the phase it
\* had and no pod appears; phases change in the external transitions only.
C17_CoreKeepsPhase ==
    [][(calls' # calls \/ budget' # budget)
        => \A id \in WorkspaceIDs :
            /\ pods'[id].exists = pods[id].exists
            /\ pods[id].exists => pods'[id].phase = pods[id].phase
    ]_vars

\* C17 happens: ControlAdmission wrote its annotation to the pod of a
\* workspace in CREATING, which is still in CREATING.
C17_Witness ==
    \E p \in Procs :
        LET c == calls[p]
        IN  /\ Completed(c) /\ c.op = "ControlAdmission"
            /\ c.result.code = "OK" /\ c.wrote = 1
            /\ c.phase = "CREATING"
            /\ pods[c.id].exists
            /\ pods[c.id].phase = "CREATING"
            /\ WorkspaceAdmissionAnnotation \in DOMAIN pods[c.id].annotations

C18_FailedWitness ==
    LET a == watchers["a"]
        b == watchers["b"]
    IN  /\ a.pc = "failed" /\ a.chan = "cancelled" /\ a.endSeq = 1
        /\ b.pc = "receiving"
        /\ Len(b.delivered) > 0
        /\ b.delivered[Len(b.delivered)].seq = 2

\* C19: under any interleaving of ControlAdmission with phase transitions
\* and the deletion of the pod, the admission annotation is written only
\* while the workspace is neither STOPPING nor STOPPED, and a call whose pod
\* disappears between the phase check and the write returns NotFound.
C19_AdmissionWriteGuarded ==
    /\ [][\A p \in Procs :
            LET c == calls[p]
                d == calls'[p]
            IN  (c.op = "ControlAdmission" /\ c.pc = "markUpdate"
                    /\ d.wrote > c.wrote)
                => /\ pods[c.id].exists
                   /\ pods[c.id].phase \notin {"STOPPING", "STOPPED"}
         ]_vars
    /\ [](\A p \in Procs :
            LET c == calls[p]
            IN  (Completed(c) /\ c.op = "ControlAdmission"
                    /\ c.markErr = "notfound")
                => c.result.code = "NotFound")

\* C19, the second half on its own: a ControlAdmission whose pod is gone when
\* the mark operation looks for it returns NotFound.
C19_PodGoneIsNotFound ==
    \A p \in Procs :
        LET c == calls[p]
        IN  (Completed(c) /\ c.op = "ControlAdmission"
                /\ c.markErr = "notfound")
            => c.result.code = "NotFound"

\* C19, as the code has it: the phase is checked once, when the request
\* arrives; a call whose pod is gone when the mark operation runs returns
\* Internal and has written nothing.
C19_PodGoneIsInternal ==
    \A p \in Procs :
        LET c == calls[p]
        IN  (Completed(c) /\ c.op = "ControlAdmission"
                /\ c.markErr = "notfound")
            => /\ c.phase \in {"CREATING", "RUNNING"}
               /\ c.result.code = "Internal"
               /\ c.wrote = 0

\* C20: the core never deletes a volume snapshot: the snapshot objects only
\* grow in number and keep what they were created with; a TakeSnapshot that
\* returns before its create step (NotFound, Internal on the reads,
\* FailedPrecondition) leaves the objects as they are; and the object a
\* TakeSnapshot created is still in the store after the call has failed in
\* its wait, where GetVolumeSnapshot finds it.
C20_SnapshotsOnlyGrow ==
    /\ [][\A n \in DOMAIN snapshots :
            /\ n \in DOMAIN snapshots'
            /\ snapshots'[n].workspaceID = snapshots[n].workspaceID
            /\ snapshots'[n].pvcName = snapshots[n].pvcName
         ]_vars
    /\ [][\A p \in Procs :
            LET d == calls'[p]
            IN  (Returns(p) /\ d.op = "TakeSnapshot" /\ d.nanos < 0)
                => /\ snapshots' = snapshots
                   /\ d.created = 0
         ]_vars
    /\ [](\A p \in Procs :
            LET c == calls[p]
            IN  (c.op = "TakeSnapshot" /\ c.created > 0)
                => /\ c.created = 1
                   /\ c.name \in DOMAIN snapshots
                   /\ snapshots[c.name].workspaceID = c.id)

\* C20 happens: a synchronous TakeSnapshot created snapshot-w1-0 and failed
\* in its wait with Internal; the object is in the store, not ready, and
\* GetVolumeSnapshot has returned it.
C20_Witness ==
    \E p, q \in Procs :
        LET c == calls[p]
            g == calls[q]
        IN  /\ Completed(c) /\ c.op = "TakeSnapshot" /\ ~c.returnImmediately
            /\ c.created = 1 /\ c.result.code = "Internal"
            /\ c.name \in DOMAIN snapshots
            /\ ~snapshots[c.name].ready
            /\ Completed(g) /\ g.op = "GetVolumeSnapshot"
            /\ g.id = c.name
            /\ g.snap = <<[id |-> c.name, ready |-> FALSE]>>

\* C20 happens for an early return too: TakeSnapshot was refused with
\* FailedPrecondition while the store held a snapshot.
C20_EarlyReturnWitness ==
    \E p \in Procs :
        LET c == calls[p]
        IN  /\ Completed(c) /\ c.op = "TakeSnapshot"
            /\ c.result.code = "FailedPrecondition"
            /\ DOMAIN snapshots # {}

====
